---- MODULE Spec2Model ----
(***************************************************************************)
(* Resume Builder API (src/main.py, src/schemas.py).                       *)
(*                                                                         *)
(* A text (Python str) is a sequence of characters; a character is a       *)
(* one-character string.  An Optional[str] is None == <<>> or Some(s) ==   *)
(* <<s>>.  A dict is a function whose domain is its set of keys.           *)
(***************************************************************************)
EXTENDS Integers, Sequences, FiniteSets, TLC

VARIABLES pc, endpoint, req, text, rewritten, resp, raised, inserted

vars == <<pc, endpoint, req, text, rewritten, resp, raised, inserted>>

(***************************************************************************)
(* Bounds of the model.                                                    *)
(***************************************************************************)
MaxSkills == 11
MaxItems == 4
MaxOver == 1
MaxLines == 2

(***************************************************************************)
(* Python values.                                                          *)
(***************************************************************************)
None == <<>>
Some(s) == <<s>>

\* bool(x) of an Optional[str]: None and "" are falsy
Truthy(o) == o # None /\ Len(o[1]) > 0

\* s[:n] for n >= 0
Slice(s, n) == SubSeq(s, 1, IF Len(s) < n THEN Len(s) ELSE n)

\* d.get(k, default)
Get(d, k, default) == IF k \in DOMAIN d THEN d[k] ELSE default

\* d[k] = v on a copy of d (adds the key when it is missing)
Put(d, k, v) == [x \in DOMAIN d \cup {k} |-> IF x = k THEN v ELSE d[x]]

Min(a, b) == IF a < b THEN a ELSE b

Ellipsis == "U+2026"

(***************************************************************************)
(* GenerateOptions.                                                        *)
(***************************************************************************)
\* region is accepted and never read; two of the nine literals are drawn
Regions == {"United States", "India"}

ResumeTypes == {"Chronological", "Functional", "Combination", "Infographic",
                "Profile", "Targeted", "Nontraditional", "Mini-Resume"}

Tones == {"Formal", "Concise", "Creative", "Executive"}

GenerateOptions == [region : Regions, resume_type : ResumeTypes, tone : Tones]

(***************************************************************************)
(* rewrite_content                                                         *)
(***************************************************************************)
ConciseLimit == 220

rewrite_content_keeps_tail(resume, tone) ==
    IF Truthy(Get(resume, "summary", None)) /\ tone = "Concise"
    THEN LET s == resume["summary"][1]
         IN  Put(resume, "summary",
                 Some(s \o (IF Len(s) > ConciseLimit THEN <<Ellipsis>> ELSE <<>>)))
    ELSE resume

rewrite_content(resume, tone) ==
    IF Truthy(Get(resume, "summary", None)) /\ tone = "Concise"
    THEN LET s == resume["summary"][1]
         IN  Put(resume, "summary",
                 Some(Slice(s, ConciseLimit)
                      \o (IF Len(s) > ConciseLimit THEN <<Ellipsis>> ELSE <<>>)))
    ELSE resume

(***************************************************************************)
(* adapt_by_region_and_type                                                *)
(***************************************************************************)
BaseScore == 80
SkillsThreshold == 8
SkillsBonus == 5
SummaryBonus == 3
ScoreCap == 95
GenerateScore == 78

MiniExperience == 3
MiniEducation == 1
MiniSkills == 10

adapt_mini_keeps_last(resume, region, rtype) ==
    IF rtype = "Functional" THEN Put(resume, "_layout", "skills-first")
    ELSE IF rtype = "Chronological" THEN Put(resume, "_layout", "experience-first")
    ELSE IF rtype = "Mini-Resume"
    THEN LET e == Get(resume, "experience", <<>>)
             o1 == Put(resume, "experience",
                       SubSeq(e, Len(e) - Min(Len(e), MiniExperience) + 1, Len(e)))
             o2 == Put(o1, "education",
                       Slice(Get(o1, "education", <<>>), MiniEducation))
         IN  Put(o2, "skills", Slice(Get(o2, "skills", <<>>), MiniSkills))
    ELSE resume

adapt_mini_skills_below_threshold(resume, region, rtype) ==
    IF rtype = "Functional" THEN Put(resume, "_layout", "skills-first")
    ELSE IF rtype = "Chronological" THEN Put(resume, "_layout", "experience-first")
    ELSE IF rtype = "Mini-Resume"
    THEN LET o1 == Put(resume, "experience",
                       Slice(Get(resume, "experience", <<>>), MiniExperience))
             o2 == Put(o1, "education",
                       Slice(Get(o1, "education", <<>>), MiniEducation))
         IN  Put(o2, "skills", Slice(Get(o2, "skills", <<>>), SkillsThreshold - 1))
    ELSE resume

adapt_by_region_and_type(resume, region, rtype) ==
    IF rtype = "Functional" THEN Put(resume, "_layout", "skills-first")
    ELSE IF rtype = "Chronological" THEN Put(resume, "_layout", "experience-first")
    ELSE IF rtype = "Mini-Resume"
    THEN LET o1 == Put(resume, "experience",
                       Slice(Get(resume, "experience", <<>>), MiniExperience))
             o2 == Put(o1, "education",
                       Slice(Get(o1, "education", <<>>), MiniEducation))
         IN  Put(o2, "skills", Slice(Get(o2, "skills", <<>>), MiniSkills))
    ELSE resume

(***************************************************************************)
(* The ATS score of /api/optimize                                          *)
(***************************************************************************)
ats_score_no_summary_bonus(data) ==
    LET s0 == BaseScore
        s1 == IF Len(Get(data, "skills", <<>>)) >= SkillsThreshold
              THEN s0 + SkillsBonus ELSE s0
    IN  Min(s1, ScoreCap)

ats_score_strict_threshold(data) ==
    LET s0 == BaseScore
        s1 == IF Len(Get(data, "skills", <<>>)) > SkillsThreshold
              THEN s0 + SkillsBonus ELSE s0
        s2 == IF Truthy(Get(data, "summary", None)) THEN s1 + SummaryBonus ELSE s1
    IN  Min(s2, ScoreCap)

ats_score(data) ==
    LET s0 == BaseScore
        s1 == IF Len(Get(data, "skills", <<>>)) >= SkillsThreshold
              THEN s0 + SkillsBonus ELSE s0
        s2 == IF Truthy(Get(data, "summary", None)) THEN s1 + SummaryBonus ELSE s1
    IN  Min(s2, ScoreCap)

(***************************************************************************)
(* Request bodies                                                          *)
(***************************************************************************)
SummaryText(n) == [i \in 1..n |-> IF i % 2 = 1 THEN "a" ELSE "b"]

SummaryLens == {0} \cup {ConciseLimit + d : d \in (0 - MaxOver)..MaxOver}

Summaries == {None} \cup {Some(SummaryText(n)) : n \in SummaryLens}

SkillList(n) == [i \in 1..n |-> "skill" \o ToString(i)]

ExperienceItem(i) ==
    [title |-> "title" \o ToString(i), company |-> "company", location |-> None,
     start_date |-> None, end_date |-> None, bullets |-> <<>>]

EducationItem(i) ==
    [school |-> "school" \o ToString(i), degree |-> None, field |-> None,
     start_date |-> None, end_date |-> None, details |-> None]

\* Resume.model_dump()
Resume(summary, nskills, nitems) ==
    [name |-> "Ann", email |-> "ann@example.com", phone |-> None,
     location |-> None, summary |-> summary,
     experience |-> [i \in 1..nitems |-> ExperienceItem(i)],
     education |-> [i \in 1..nitems |-> EducationItem(i)],
     skills |-> SkillList(nskills),
     certifications |-> <<>>, achievements |-> <<>>, target_role |-> None]

Resumes == {Resume(s, k, n) : s \in Summaries, k \in 0..MaxSkills, n \in 0..MaxItems}

\* BasicInfo.model_dump(): the same keys; education and experience are
\* lists of loosely typed dicts
BasicInfos == Resumes

(***************************************************************************)
(* Python str and bytes operations used by the upload path                 *)
(***************************************************************************)
LF == "\n"
CR == "\r"
TAB == "\t"

\* the line boundaries of str.splitlines() that the model's alphabet has
LineBreaks == {LF, CR}

\* the characters str.strip() removes that the model's alphabet has
Whitespace == {" ", TAB, LF, CR}

Digits == {"0", "1", "2", "3", "4", "5", "6", "7", "8", "9"}

Upper == {"A", "C", "G", "I", "K", "L", "P", "R", "S", "T", "V", "X"}

LowerOf == [c \in Upper |->
    CASE c = "A" -> "a" [] c = "C" -> "c" [] c = "G" -> "g" [] c = "I" -> "i"
      [] c = "K" -> "k" [] c = "L" -> "l" [] c = "P" -> "p" [] c = "R" -> "r"
      [] c = "S" -> "s" [] c = "T" -> "t" [] c = "V" -> "v" [] c = "X" -> "x"]

\* s.lower()
Lower(s) == [i \in 1..Len(s) |-> IF s[i] \in Upper THEN LowerOf[s[i]] ELSE s[i]]

\* c in s, for a character c
HasChar(s, c) == \E i \in 1..Len(s) : s[i] = c

\* sub in s
Contains(s, sub) ==
    \E i \in 0..(Len(s) - Len(sub)) : SubSeq(s, i + 1, i + Len(sub)) = sub

\* s.startswith(p), s.endswith(p)
StartsWith(s, p) == Len(s) >= Len(p) /\ SubSeq(s, 1, Len(p)) = p
EndsWith(s, p) == Len(s) >= Len(p) /\ SubSeq(s, Len(s) - Len(p) + 1, Len(s)) = p

\* s.strip()
Strip(s) ==
    LET keep == {i \in 1..Len(s) : s[i] \notin Whitespace}
    IN  IF keep = {} THEN <<>>
        ELSE LET lo == CHOOSE i \in keep : \A j \in keep : i <= j
                 hi == CHOOSE i \in keep : \A j \in keep : j <= i
             IN  SubSeq(s, lo, hi)

\* s.replace(a, b), for characters a and b
Replace(s, a, b) == [i \in 1..Len(s) |-> IF s[i] = a THEN b ELSE s[i]]

\* s.replace(a, ""), for a character a
Remove(s, a) == SelectSeq(s, LAMBDA c : c # a)

\* s.isdigit()
IsDigit(s) == Len(s) > 0 /\ \A i \in 1..Len(s) : s[i] \in Digits

\* s.split(sep), for a character sep: every piece, the empty ones included
RECURSIVE SplitFrom(_, _, _, _, _)
SplitFrom(s, sep, i, cur, acc) ==
    IF i > Len(s) THEN Append(acc, cur)
    ELSE IF s[i] = sep THEN SplitFrom(s, sep, i + 1, <<>>, Append(acc, cur))
    ELSE SplitFrom(s, sep, i + 1, Append(cur, s[i]), acc)

Split(s, sep) == SplitFrom(s, sep, 1, <<>>, <<>>)

\* s.split(sep, 1)
Split1(s, sep) ==
    IF HasChar(s, sep)
    THEN LET i == CHOOSE k \in 1..Len(s) :
                    s[k] = sep /\ \A j \in 1..(k - 1) : s[j] # sep
         IN  <<SubSeq(s, 1, i - 1), SubSeq(s, i + 1, Len(s))>>
    ELSE <<s>>

\* text.splitlines(): "\r\n" is one boundary; no empty last line
RECURSIVE SplitLinesFrom(_, _, _, _)
SplitLinesFrom(s, i, cur, acc) ==
    IF i > Len(s) THEN (IF cur = <<>> THEN acc ELSE Append(acc, cur))
    ELSE IF s[i] = CR /\ i < Len(s) /\ s[i + 1] = LF
         THEN SplitLinesFrom(s, i + 2, <<>>, Append(acc, cur))
    ELSE IF s[i] \in LineBreaks
         THEN SplitLinesFrom(s, i + 1, <<>>, Append(acc, cur))
    ELSE SplitLinesFrom(s, i + 1, Append(cur, s[i]), acc)

SplitLines(s) == SplitLinesFrom(s, 1, <<>>, <<>>)

\* [x.strip() for x in xs]
StripAll(xs) == [i \in 1..Len(xs) |-> Strip(xs[i])]

(***************************************************************************)
(* parse_txt: bytes are named by the character they encode in ASCII, or by *)
(* their value when they are not ASCII                                     *)
(***************************************************************************)
\* content.decode("utf-8") succeeds: in the model's alphabet the only
\* multi-byte sequence that is well formed is C3 A9
ValidUtf8(content) ==
    \A i \in 1..Len(content) :
        /\ content[i] = "0xE9" => FALSE
        /\ content[i] = "0xC3" => (i < Len(content) /\ content[i + 1] = "0xA9")
        /\ content[i] = "0xA9" => (i > 1 /\ content[i - 1] = "0xC3")

RECURSIVE DecodeUtf8From(_, _, _)
DecodeUtf8From(content, i, acc) ==
    IF i > Len(content) THEN acc
    ELSE IF content[i] = "0xC3"
         THEN DecodeUtf8From(content, i + 2, Append(acc, "U+00E9"))
    ELSE DecodeUtf8From(content, i + 1, Append(acc, content[i]))

DecodeLatin1(content) ==
    [i \in 1..Len(content) |->
        CASE content[i] = "0xC3" -> "U+00C3"
          [] content[i] = "0xA9" -> "U+00A9"
          [] content[i] = "0xE9" -> "U+00E9"
          [] OTHER -> content[i]]

parse_txt(content) ==
    IF ValidUtf8(content) THEN DecodeUtf8From(content, 1, <<>>)
    ELSE DecodeLatin1(content)

(***************************************************************************)
(* heuristic_extract                                                       *)
(***************************************************************************)
PlaceholderEmail ==
    <<"u", "s", "e", "r", "@", "e", "x", "a", "m", "p", "l", "e", ".", "c", "o", "m">>

SkillsWord == <<"s", "k", "i", "l", "l", "s">>

\* [l.strip() for l in text.splitlines() if l.strip()]
StrippedLines(txt) ==
    SelectSeq(StripAll(SplitLines(txt)), LAMBDA l : l # <<>>)

is_email_line_at_only(l) == HasChar(l, "@")

is_email_line(l) == HasChar(l, "@") /\ HasChar(l, ".")

is_phone_line(l) ==
    \/ (\E i \in 1..Len(l) : l[i] \in Digits) /\ HasChar(l, "+")
    \/ IsDigit(Remove(l, " "))

\* next((l for l in lines if <email test>), "user@example.com")
first_email(lines) ==
    LET hits == SelectSeq(lines, is_email_line)
    IN  IF hits # <<>> THEN hits[1] ELSE PlaceholderEmail

\* next((l for l in lines if <phone test>), None)
first_phone(lines) ==
    LET hits == SelectSeq(lines, is_phone_line)
    IN  IF hits # <<>> THEN Some(hits[1]) ELSE None

is_skills_line(l) ==
    \/ StartsWith(Lower(l), SkillsWord)
    \/ Contains(Lower(l), SkillsWord \o <<":">>)

split_skills_commas_only(rest) ==
    SelectSeq(StripAll(Split(rest, ",")), LAMBDA s : s # <<>>)

\* [s.strip() for s in parts[1].replace("|", ",").split(",") if s.strip()]
split_skills(rest) ==
    SelectSeq(StripAll(Split(Replace(rest, "|", ","), ",")), LAMBDA s : s # <<>>)

\* the for loop over lines: every matching line that has a colon assigns skills
RECURSIVE skills_loop(_, _, _)
skills_loop(lines, i, skills) ==
    IF i > Len(lines) THEN skills
    ELSE LET l == lines[i]
             parts == Split1(l, ":")
         IN  IF is_skills_line(l) /\ Len(parts) = 2
             THEN skills_loop(lines, i + 1, split_skills(parts[2]))
             ELSE skills_loop(lines, i + 1, skills)

heuristic_extract(txt) ==
    LET lines == StrippedLines(txt)
    IN  [name |-> IF lines # <<>> THEN lines[1] ELSE <<>>,
         email |-> first_email(lines),
         phone |-> first_phone(lines),
         summary |-> None,
         education |-> <<>>,
         experience |-> <<>>,
         skills |-> skills_loop(lines, 1, <<>>),
         certifications |-> <<>>,
         achievements |-> <<>>]

(***************************************************************************)
(* Uploaded files                                                          *)
(***************************************************************************)
Fragments ==
    { <<"A", "n", "n">>,
      <<"a", "@", "b", ".", "c">>,
      <<" ", "a", "@", "b">>,
      <<"+", "1", " ", "5">>,
      <<"1", "2", " ", "3">>,
      <<"S", "k", "i", "l", "l", "s", ":", " ", "P", "y", ",", " ", "G", "o", " ", "|", " ", "R">>,
      <<"S", "K", "I", "L", "L", "S", ":", "C", ",", ",", "|", " ">>,
      <<"s", "k", "i", "l", "l", "s", " ", "x">>,
      <<"m", "y", " ", "s", "k", "i", "l", "l", "s", ":", "a", ":", "b", "|", "c", ".">>,
      <<" ", TAB>>,
      <<"0xC3", "0xA9", "@">>,
      <<"0xE9", ".">> }

Terminators == {<<LF>>, <<CR, LF>>}

RECURSIVE Join(_, _)
Join(fs, sep) ==
    IF Len(fs) = 0 THEN <<>>
    ELSE IF Len(fs) = 1 THEN fs[1]
    ELSE fs[1] \o sep \o Join(Tail(fs), sep)

Contents ==
    {Join(fs, sep) : fs \in UNION {[1..k -> Fragments] : k \in 0..MaxLines},
                     sep \in Terminators}

FileNames ==
    { None,
      Some(<<"c", "v", ".", "t", "x", "t">>),
      Some(<<"C", "V", ".", "T", "X", "T">>),
      Some(<<"c", "v", ".", "p", "d", "f">>),
      Some(<<"c", "v", ".", "d", "o", "c", "x">>),
      Some(<<"c", "v">>) }

\* the bytes of a file that is not plain text
BinaryContents == {<<>>, <<"%", "P", "D", "F">>, <<"P", "K", "0xE9">>}

IsTxtName(f) == f # None /\ EndsWith(Lower(f[1]), <<".", "t", "x", "t">>)

\* an UploadFile: its name and the bytes file.read() returns
Uploads ==
    [filename : {f \in FileNames : IsTxtName(f)}, content : Contents]
    \cup [filename : {f \in FileNames : ~IsTxtName(f)}, content : BinaryContents]

\* what the optional PDF / DOCX library extracts: None when the import or
\* the parse raises, else the pages' or paragraphs' text joined by "\n"
LibraryOutcomes ==
    {None} \cup {Some(parse_txt(Join(fs, <<LF>>))) : fs \in [1..1 -> Fragments]}

(***************************************************************************)
(* create_document: the external store's insert; it returns or raises      *)
(***************************************************************************)
create_document(collection, data, ok) ==
    IF ok THEN [raised |-> FALSE, inserted |-> Some([collection |-> collection, data |-> data])]
    ELSE [raised |-> TRUE, inserted |-> None]

try_create_document_uncaught(data, ok) ==
    LET w == create_document("resume", data, ok)
    IN  [raised |-> w.raised, inserted |-> w.inserted, propagates |-> w.raised]

\* try: create_document("resume", data) / except Exception: pass
try_create_document(data, ok) ==
    LET w == create_document("resume", data, ok)
    IN  [raised |-> w.raised, inserted |-> w.inserted, propagates |-> FALSE]

\* what the caller gets: the handler's return value, or the framework's
\* error response when an exception leaves the handler
Response(body, propagates) ==
    IF propagates THEN [status |-> 500] ELSE body

(***************************************************************************)
(* The server                                                              *)
(***************************************************************************)
NoReq == [kind |-> "none"]
NoResp == [status |-> 0]

Init ==
    /\ pc = "idle"
    /\ endpoint = "none"
    /\ req = NoReq
    /\ text = <<>>
    /\ rewritten = None
    /\ resp = NoResp
    /\ raised = FALSE
    /\ inserted = None

\* a request that passed the framework's validation reaches its handler
Receive ==
    /\ pc = "idle"
    /\ pc' = "pending"
    /\ \/ /\ endpoint' = "/api/optimize"
          /\ \E r \in Resumes, o \in GenerateOptions :
                req' = [resume |-> r, options |-> o]
       \/ /\ endpoint' = "/api/generate-from-basic"
          /\ \E b \in BasicInfos, o \in GenerateOptions :
                req' = [basic |-> b, options |-> o]
       \/ /\ endpoint' = "/api/parse-upload"
          /\ \E u \in Uploads : req' = u
    /\ UNCHANGED <<text, rewritten, resp, raised, inserted>>

generate_from_body_scored(payload) ==
    LET options == payload.options
        d1 == rewrite_content(payload.basic, options.tone)
        d2 == adapt_by_region_and_type(d1, options.region, options.resume_type)
    IN  [status |-> 200, resume |-> d2, ats_score |-> ats_score(d2) - 2]

generate_from_body(payload) ==
    LET options == payload.options
        d1 == rewrite_content(payload.basic, options.tone)
        d2 == adapt_by_region_and_type(d1, options.region, options.resume_type)
    IN  [status |-> 200, resume |-> d2, ats_score |-> GenerateScore]

generate_from_basic ==
    /\ pc = "pending"
    /\ endpoint = "/api/generate-from-basic"
    /\ \E ok \in BOOLEAN :
         LET body == generate_from_body(req)
             w == try_create_document(body.resume, ok)
         IN  /\ resp' = Response(body, w.propagates)
             /\ raised' = w.raised
             /\ inserted' = w.inserted
    /\ rewritten' = Some(rewrite_content(req.basic, req.options.tone))
    /\ pc' = "done"
    /\ UNCHANGED <<endpoint, req, text>>

optimize_body(payload) ==
    LET options == payload.options
        d1 == rewrite_content(payload.resume, options.tone)
        d2 == adapt_by_region_and_type(d1, options.region, options.resume_type)
    IN  [status |-> 200, resume |-> d2, ats_score |-> ats_score(d2)]

optimize_resume ==
    /\ pc = "pending"
    /\ endpoint = "/api/optimize"
    /\ \E ok \in BOOLEAN :
         LET body == optimize_body(req)
             w == try_create_document(body.resume, ok)
         IN  /\ resp' = Response(body, w.propagates)
             /\ raised' = w.raised
             /\ inserted' = w.inserted
    /\ rewritten' = Some(rewrite_content(req.resume, req.options.tone))
    /\ pc' = "done"
    /\ UNCHANGED <<endpoint, req, text>>

\* whether the file name's extension selects the optional PDF / DOCX library
uses_library(file) ==
    LET filename == Lower(IF file.filename = None THEN <<>> ELSE file.filename[1])
    IN  /\ ~EndsWith(filename, <<".", "t", "x", "t">>)
        /\ \/ EndsWith(filename, <<".", "p", "d", "f">>)
           \/ EndsWith(filename, <<".", "d", "o", "c", "x">>)

\* the branch on the file name's extension: the text handed to
\* heuristic_extract; lib is what the optional PDF / DOCX library does with
\* the content (None: it is missing or raises)
upload_text(file, lib) ==
    LET filename == Lower(IF file.filename = None THEN <<>> ELSE file.filename[1])
    IN  IF EndsWith(filename, <<".", "t", "x", "t">>) THEN parse_txt(file.content)
        ELSE IF EndsWith(filename, <<".", "p", "d", "f">>)
                  \/ EndsWith(filename, <<".", "d", "o", "c", "x">>)
             THEN (IF lib = None THEN <<>> ELSE lib[1])
        ELSE <<>>

parse_upload ==
    /\ pc = "pending"
    /\ endpoint = "/api/parse-upload"
    /\ \E lib \in (IF uses_library(req) THEN LibraryOutcomes ELSE {None}),
          ok \in BOOLEAN :
         LET t == upload_text(req, lib)
             extracted == heuristic_extract(t)
             w == try_create_document(extracted, ok)
         IN  /\ text' = t
             /\ resp' = Response([status |-> 200, extracted |-> extracted],
                                 w.propagates)
             /\ raised' = w.raised
             /\ inserted' = w.inserted
    /\ pc' = "done"
    /\ UNCHANGED <<endpoint, req, rewritten>>

\* the response is sent; nothing of the request is retained
Respond ==
    /\ pc = "done"
    /\ pc' = "idle"
    /\ endpoint' = "none"
    /\ req' = NoReq
    /\ text' = <<>>
    /\ rewritten' = None
    /\ resp' = NoResp
    /\ raised' = FALSE
    /\ inserted' = None

Next ==
    \/ Receive
    \/ parse_upload
    \/ generate_from_basic
    \/ optimize_resume
    \/ Respond

Spec == Init /\ [][Next]_vars

(***************************************************************************)
(* Properties                                                              *)
(***************************************************************************)
Done(e) == pc = "done" /\ endpoint = e

\* the resume-like mapping a generate or optimize request carries
InputResume == IF endpoint = "/api/optimize" THEN req.resume ELSE req.basic

NonEmptySummary(r) == r.summary # None /\ r.summary[1] # <<>>

\* C1 as stated: an /api/optimize request with exactly 9 skills and a
\* non-empty summary is answered with ats_score 95, whatever the options.
C1_ScoreIs95 ==
    (Done("/api/optimize") /\ Len(req.resume.skills) = 9 /\ NonEmptySummary(req.resume))
        => resp.ats_score = 95

\* C1 amended: an /api/optimize request with exactly 9 skills and a
\* non-empty summary is answered with ats_score 88 (80 + 5 + 3; the cap of
\* 95 is not reached), whatever the options.
C1_ScoreIs88 ==
    (Done("/api/optimize") /\ Len(req.resume.skills) = 9 /\ NonEmptySummary(req.resume))
        => resp.ats_score = 88

C1_Witness ==
    /\ Done("/api/optimize")
    /\ Len(req.resume.skills) = 9
    /\ NonEmptySummary(req.resume)
    /\ Len(req.resume.summary[1]) > 220
    /\ req.options.tone = "Concise"
    /\ req.options.resume_type = "Mini-Resume"
    /\ resp.ats_score = 88

\* C2: the ats_score of /api/optimize is min(95, 80 + (5 if the request's
\* resume has at least 8 skills) + (3 if its summary is non-empty)); 3 skills
\* and an empty summary score 80; the score lies in 80..95.
C2_ScoreFormula ==
    Done("/api/optimize") =>
        LET r == req.resume
            sum == 80 + (IF Len(r.skills) >= 8 THEN 5 ELSE 0)
                      + (IF NonEmptySummary(r) THEN 3 ELSE 0)
        IN  /\ resp.ats_score = (IF sum > 95 THEN 95 ELSE sum)
            /\ (Len(r.skills) = 3 /\ r.summary = Some(<<>>)) => resp.ats_score = 80
            /\ resp.ats_score \in 80..95

C2_Witness ==
    /\ Done("/api/optimize")
    /\ Len(req.resume.skills) = 3
    /\ req.resume.summary = Some(<<>>)
    /\ resp.ats_score = 80

\* C3: /api/generate-from-basic answers ats_score 78 for every basic info,
\* region, resume type and tone, whether or not the store write succeeds.
C3_GenerateScoreIs78 ==
    Done("/api/generate-from-basic") => resp.ats_score = 78

C3_Witness ==
    /\ Done("/api/generate-from-basic")
    /\ raised
    /\ Len(req.basic.skills) >= 8
    /\ NonEmptySummary(req.basic)
    /\ resp.ats_score = 78

\* C4: rewrite_content with tone "Concise" turns a summary longer than 220
\* characters into its first 220 characters followed by one ellipsis marker
\* and leaves a summary of 220 characters or fewer as it is; with any other
\* tone the output mapping equals the input mapping.
C4_RewriteContent ==
    (Done("/api/optimize") \/ Done("/api/generate-from-basic")) =>
        LET in == InputResume
            out == rewritten[1]
        IN  IF req.options.tone = "Concise" /\ in.summary # None
            THEN LET s == in.summary[1]
                 IN  /\ Len(s) > 220 =>
                            out.summary = Some(SubSeq(s, 1, 220) \o <<Ellipsis>>)
                     /\ Len(s) <= 220 => out.summary = in.summary
                     /\ DOMAIN out = DOMAIN in
                     /\ \A k \in DOMAIN in \ {"summary"} : out[k] = in[k]
            ELSE out = in

C4_Witness ==
    /\ Done("/api/generate-from-basic")
    /\ req.options.tone = "Concise"
    /\ NonEmptySummary(req.basic)
    /\ Len(req.basic.summary[1]) = 221
    /\ Len(rewritten[1].summary[1]) = 221
    /\ rewritten[1].summary[1][221] = Ellipsis

\* C5: adapt_by_region_and_type with resume type "Mini-Resume" keeps the
\* first min(3, n) experience items, the first min(1, n) education items and
\* the first min(10, n) skills, in order and unchanged; every other field is
\* unchanged and no layout marker is added.
C5_MiniResume ==
    ((Done("/api/optimize") \/ Done("/api/generate-from-basic"))
        /\ req.options.resume_type = "Mini-Resume") =>
        LET in == rewritten[1]
            out == resp.resume
            Prefix(xs, n) == [i \in 1..(IF Len(xs) < n THEN Len(xs) ELSE n) |-> xs[i]]
        IN  /\ out.experience = Prefix(in.experience, 3)
            /\ out.education = Prefix(in.education, 1)
            /\ out.skills = Prefix(in.skills, 10)
            /\ DOMAIN out = DOMAIN in
            /\ "_layout" \notin DOMAIN out
            /\ \A k \in DOMAIN in \ {"experience", "education", "skills"} :
                    out[k] = in[k]

C5_Witness ==
    /\ Done("/api/optimize")
    /\ req.options.resume_type = "Mini-Resume"
    /\ Len(req.resume.experience) > 3
    /\ Len(req.resume.skills) > 10
    /\ Len(resp.resume.experience) = 3
    /\ Len(resp.resume.education) = 1
    /\ Len(resp.resume.skills) = 10

\* the lines of the text that are not blank, as they stand in the text
NonBlankLines(txt) ==
    SelectSeq(SplitLines(txt), LAMBDA l : \E i \in 1..Len(l) : l[i] \notin Whitespace)

HasAtAndDot(l) == (\E i \in 1..Len(l) : l[i] = "@") /\ (\E i \in 1..Len(l) : l[i] = ".")

RECURSIVE TokensFrom(_, _, _, _)
TokensFrom(s, i, cur, acc) ==
    LET flush == IF Strip(cur) = <<>> THEN acc ELSE Append(acc, Strip(cur))
    IN  IF i > Len(s) THEN flush
        ELSE IF s[i] \in {",", "|"} THEN TokensFrom(s, i + 1, <<>>, flush)
        ELSE TokensFrom(s, i + 1, Append(cur, s[i]), acc)

Tokens(s) == TokensFrom(s, 1, <<>>, <<>>)

\* the trimmed non-blank lines that begin with "skills", in any case
SkillsLines(txt) ==
    SelectSeq(StrippedLines(txt),
              LAMBDA l : Len(l) >= 6 /\ Lower(SubSeq(l, 1, 6)) = SkillsWord)

\* C7: when the text's one skills line has the form "Skills: <rest>", the
\* extracted skills are the non-empty trimmed tokens of <rest>, commas and
\* pipes both separating, in their order.
C7_SkillsTokens ==
    (Done("/api/parse-upload")
        /\ Len(SelectSeq(StrippedLines(text), is_skills_line)) = 1
        /\ Len(SkillsLines(text)) = 1
        /\ Len(SkillsLines(text)[1]) >= 7
        /\ SkillsLines(text)[1][7] = ":") =>
        LET l == SkillsLines(text)[1]
        IN  resp.extracted.skills = Tokens(SubSeq(l, 8, Len(l)))

C7_Witness ==
    /\ Done("/api/parse-upload")
    /\ Len(StrippedLines(text)) = 2
    /\ StrippedLines(text)[2] =
         <<"S", "k", "i", "l", "l", "s", ":", " ", "P", "y", ",", " ", "G", "o", " ", "|", " ", "R">>
    /\ Len(SkillsLines(text)) = 1
    /\ resp.extracted.skills = << <<"P", "y">>, <<"G", "o">>, <<"R">> >>

\* C8: when create_document raises in /api/parse-upload,
\* /api/generate-from-basic or /api/optimize, the caller still gets the
\* response body computed before the write, with no error, and the store
\* holds no document of the request.
C8_WriteFailureDiscarded ==
    (pc = "done" /\ raised) =>
        /\ resp.status = 200
        /\ inserted = None
        /\ endpoint = "/api/parse-upload" =>
                resp = [status |-> 200, extracted |-> heuristic_extract(text)]
        /\ endpoint = "/api/generate-from-basic" => resp = generate_from_body(req)
        /\ endpoint = "/api/optimize" => resp = optimize_body(req)

C8_Witness ==
    /\ Done("/api/parse-upload")
    /\ raised
    /\ inserted = None
    /\ resp.status = 200
    /\ resp.extracted.skills # <<>>

\* C9 as stated: when several lines of the text start with "skills" (in any
\* case), the extracted skills are those of the first such line.
C9_FirstSkillsLineWins ==
    (Done("/api/parse-upload")
        /\ Len(SkillsLines(text)) >= 2
        /\ \A i \in 1..Len(SkillsLines(text)) :
               \E k \in 1..Len(SkillsLines(text)[i]) : SkillsLines(text)[i][k] = ":") =>
        LET l == SkillsLines(text)[1]
            colon == CHOOSE k \in 1..Len(l) : l[k] = ":" /\ \A j \in 1..(k - 1) : l[j] # ":"
        IN  resp.extracted.skills = Tokens(SubSeq(l, colon + 1, Len(l)))

\* C10: the ats_score of /api/optimize does not depend on the options: the
\* same resume scores the same under every region, resume type and tone.
C10_ScoreIgnoresOptions ==
    Done("/api/optimize") =>
        \A o \in GenerateOptions :
            optimize_body([resume |-> req.resume, options |-> o]).ats_score
                = resp.ats_score

C10_Witness ==
    /\ Done("/api/optimize")
    /\ req.options.resume_type = "Mini-Resume"
    /\ req.options.tone = "Concise"
    /\ Len(req.resume.skills) > 10
    /\ NonEmptySummary(req.resume)
    /\ Len(req.resume.summary[1]) > 220
    /\ Len(resp.resume.skills) = 10
    /\ resp.ats_score = 88

====
